---- MODULE Spec2Model ----
(***************************************************************************)
(* Rate-Monotonic scheduling: First-Fit partitioning (Liu & Layland test)  *)
(* and the discrete-event simulation loop of src/main.py.                  *)
(*                                                                         *)
(* Time.  Periods and execution times are Python ints and every event time *)
(* is a sum of them, so every float the simulation handles is an integer   *)
(* value far below 2^53: float arithmetic is exact, `x <= 1e-9` is         *)
(* `x <= 0` and `abs(a - b) < 1e-9` is `a = b`.  Times are modelled as     *)
(* integers.                                                               *)
(*                                                                         *)
(* Objects.  Job objects are mutable and shared by reference between       *)
(* ready_queue and active_job, so they live in a heap `jobs` (a sequence,  *)
(* index = identity in allocation order); queues hold indices and          *)
(* active_job is an index or None.  Jobs are kept in the heap after the    *)
(* program drops its last reference to them.                               *)
(***************************************************************************)
EXTENDS Integers, Sequences, FiniteSets, TLC

\* ---- bounds of the model ------------------------------------------------
MaxTasks == 3
MaxPeriod == 4
MaxExec == 2
MaxTime == 8
MaxRuns == 2
HyperMaxPeriod == 5

VARIABLES
    tasks,              \* the caller's task list (input)
    max_time,           \* the horizon passed to run_simulation (input)
    mode,               \* how the caller builds the processors
    sorted_tasks,       \* partition_tasks_ff_rm: tasks still to place
    processors,         \* the list of Processor objects
    jobs,               \* heap of Job objects
    current_time,       \* run_simulation local
    task_next_arrival,  \* run_simulation local: processor -> task -> time
    job_counters,       \* run_simulation local: task id -> next job id
    proc_idx,           \* position of the dispatcher's `for proc` loop
    pc,                 \* position in the program
    runs,               \* number of run_simulation calls started
    prev_log            \* the logs as the previous run_simulation call left them

vars == <<tasks, max_time, mode, sorted_tasks, processors, jobs, current_time,
          task_next_arrival, job_counters, proc_idx, pc, runs, prev_log>>

None == 0

\* ---- helpers ------------------------------------------------------------
RECURSIVE GCD(_, _)
GCD(a, b) == IF b = 0 THEN a ELSE GCD(b, a % b)

LCM(a, b) == (a * b) \div GCD(a, b)

RECURSIVE SeqSum(_)
SeqSum(s) == IF s = <<>> THEN 0 ELSE Head(s) + SeqSum(Tail(s))

SetMin(S) == CHOOSE x \in S : \A y \in S : x <= y

Last(s) == s[Len(s)]

Front(s) == SubSeq(s, 1, Len(s) - 1)

\* Python's sorted()/list.sort(key=...): ascending by key, stable.
\* keys[i] is the key of seq[i].
StableSort(seq, keys) ==
    LET n == Len(seq)
        pos(i) == Cardinality({j \in 1..n :
                      \/ keys[j] < keys[i]
                      \/ (keys[j] = keys[i] /\ j < i)}) + 1
    IN  [k \in 1..n |-> seq[CHOOSE i \in 1..n : pos(i) = k]]

\* ---- domain model -------------------------------------------------------
\* Task(id, period, execution_time): a frozen dataclass, no validation.
Task(id, period, execution_time) ==
    [id |-> id, period |-> period, execution_time |-> execution_time]

\* Job(task, id, arrival_time, remaining_time, absolute_deadline)
Job(task, id, arrival_time, remaining_time, absolute_deadline) ==
    [task |-> task, id |-> id, arrival_time |-> arrival_time,
     remaining_time |-> remaining_time,
     absolute_deadline |-> absolute_deadline, completed |-> FALSE]

\* Processor(pid)
Processor(pid) ==
    [id |-> pid, assigned_tasks |-> <<>>, active_job |-> None,
     ready_queue |-> <<>>, execution_log |-> <<>>]

add_task(proc, task) ==
    [proc EXCEPT !.assigned_tasks = Append(@, task)]

\* LCM of the periods of a task list (1 for the empty list).
RECURSIVE Hyperperiod(_)
Hyperperiod(ts) ==
    IF ts = <<>> THEN 1 ELSE LCM(Head(ts).period, Hyperperiod(Tail(ts)))

\* Sum of execution_time / period over ts, as a numerator over the
\* denominator D (a common multiple of the periods).
UtilNum(ts, D) ==
    SeqSum([i \in 1..Len(ts) |-> ts[i].execution_time * (D \div ts[i].period)])

\* ---- algorithms ---------------------------------------------------------
\* liu_layland_bound(n) = n * (2^(1/n) - 1), in millionths, rounded down
\* (1.0 for n = 0 and n = 1).  For n >= 2 the bound is irrational, and the
\* utilizations that occur have denominators far below 10^6.
liu_layland_bound(n) ==
    CASE n = 0 -> 1000000
      [] n = 1 -> 1000000
      [] n = 2 -> 828427
      [] n = 3 -> 779763
      [] n = 4 -> 756828
      [] n = 5 -> 743491
      [] n = 6 -> 734772

\* (current_u + task.utilization) <= liu_layland_bound(new_n)
FitsBound(ts) ==
    LET D == Hyperperiod(ts)
    IN  UtilNum(ts, D) * 1000000 <= liu_layland_bound(Len(ts)) * D

\* Variant of Fits: the bound of line 98 is taken for the number of tasks
\* before the insertion, len(assigned_tasks), not after it.
FitsPreInsertion(proc, task) ==
    LET ts == Append(proc.assigned_tasks, task)
        D == Hyperperiod(ts)
    IN  UtilNum(ts, D) * 1000000
            <= liu_layland_bound(Len(proc.assigned_tasks)) * D

Fits(proc, task) == FitsBound(Append(proc.assigned_tasks, task))

\* Variant of FirstFit: the `break` of line 103 is missing, the task is
\* added to every processor that passes the test.
FirstFitNoBreak(procs, task) ==
    IF \E p \in 1..Len(procs) : Fits(procs[p], task)
    THEN [p \in 1..Len(procs) |->
             IF Fits(procs[p], task) THEN add_task(procs[p], task) ELSE procs[p]]
    ELSE Append(procs, add_task(Processor(Len(procs)), task))

\* Variant of FirstFit: the scan of line 95 runs to the end, the task goes
\* to the last processor that passes the test.
FirstFitLastFit(procs, task) ==
    IF \E p \in 1..Len(procs) : Fits(procs[p], task)
    THEN LET fit == {q \in 1..Len(procs) : Fits(procs[q], task)}
             p == CHOOSE q \in fit : \A r \in fit : r <= q
         IN  [procs EXCEPT ![p] = add_task(@, task)]
    ELSE Append(procs, add_task(Processor(Len(procs)), task))

\* One iteration of `for task in sorted_tasks`: first fit, else new processor.
FirstFit(procs, task) ==
    IF \E p \in 1..Len(procs) : Fits(procs[p], task)
    THEN LET p == SetMin({q \in 1..Len(procs) : Fits(procs[q], task)})
         IN  [procs EXCEPT ![p] = add_task(@, task)]
    ELSE Append(procs, add_task(Processor(Len(procs)), task))

\* ---- inputs -------------------------------------------------------------
TaskId(i) == i

\* Task lists the caller can build: ids distinct (the position in the
\* list), any period and execution time within the bounds, valid or not.
TaskLists(maxPeriod) ==
    UNION {[1..n -> (1..maxPeriod) \X (1..MaxExec)] : n \in 0..MaxTasks}

MakeTasks(pe) == [i \in 1..Len(pe) |-> Task(TaskId(i), pe[i][1], pe[i][2])]

\* Nothing built yet, run_simulation not yet called.
InitState ==
    /\ mode \in {"ffrm", "uni"}
    /\ sorted_tasks = <<>>
    /\ processors = <<>>
    /\ jobs = <<>>
    /\ current_time = 0
    /\ task_next_arrival = <<>>
    /\ job_counters = <<>>
    /\ proc_idx = 0
    /\ pc = "start"
    /\ runs = 0
    /\ prev_log = <<>>

\* Any task list and any positive horizon within the bounds.
Init ==
    /\ \E pe \in TaskLists(MaxPeriod) : tasks = MakeTasks(pe)
    /\ max_time \in 1..MaxTime
    /\ InitState

\* The callers that pass the hyperperiod of the task list as the horizon.
InitHyper ==
    /\ \E pe \in TaskLists(HyperMaxPeriod) : tasks = MakeTasks(pe)
    /\ max_time = Hyperperiod(tasks)
    /\ InitState

\* The task list of __main__: T1 (period 2, exec 1), T2 (5, 2), T3 (4, 2).
MainTasks == MakeTasks(<< <<2, 1>>, <<5, 2>>, <<4, 2>> >>)

\* The task list of test_custom_scenario: T1 (9, 2), T2 (5, 2), T3 (3, 1).
TestRmTasks == MakeTasks(<< <<9, 2>>, <<5, 2>>, <<3, 1>> >>)

\* The task list of test_ffrm_scenario: T1 (2, 1), T2 (2, 1), T3 (5, 4).
TestFfrmTasks == MakeTasks(<< <<2, 1>>, <<2, 1>>, <<5, 4>> >>)

\* A single task (period 10, exec 3), to be run alone over horizon 30.
SingleTask == MakeTasks(<< <<10, 3>> >>)

\* The concrete scenarios: __main__ (both scenarios, horizon = the
\* hyperperiod), the two test scripts, and the single-task scenario.
InitCases ==
    /\ \/ tasks = MainTasks /\ max_time = Hyperperiod(MainTasks)
               /\ mode \in {"uni", "ffrm"}
       \/ tasks = TestRmTasks /\ max_time = 10 /\ mode = "uni"
       \/ tasks = TestFfrmTasks /\ max_time = 6 /\ mode = "ffrm"
       \/ tasks = SingleTask /\ max_time = 30 /\ mode = "uni"
    /\ sorted_tasks = <<>>
    /\ processors = <<>>
    /\ jobs = <<>>
    /\ current_time = 0
    /\ task_next_arrival = <<>>
    /\ job_counters = <<>>
    /\ proc_idx = 0
    /\ pc = "start"
    /\ runs = 0
    /\ prev_log = <<>>

\* ---- partition_tasks_ff_rm ---------------------------------------------
sim_vars == <<jobs, current_time, task_next_arrival, job_counters, proc_idx,
              runs, prev_log>>

TaskPeriod(t) == t.period

\* lines 87-89: sort by period, start with one empty processor.
BeginPartition ==
    /\ pc = "start"
    /\ mode = "ffrm"
    /\ sorted_tasks' = StableSort(tasks, [i \in 1..Len(tasks) |-> TaskPeriod(tasks[i])])
    /\ processors' = <<Processor(0)>>
    /\ pc' = IF tasks = <<>> THEN "ready" ELSE "partition"
    /\ UNCHANGED <<tasks, max_time, mode>>
    /\ UNCHANGED sim_vars

\* lines 91-109: place the next task; line 111 after the last one.
PlaceTask ==
    /\ pc = "partition"
    /\ sorted_tasks # <<>>
    /\ processors' = FirstFit(processors, Head(sorted_tasks))
    /\ sorted_tasks' = Tail(sorted_tasks)
    /\ pc' = IF Tail(sorted_tasks) = <<>> THEN "ready" ELSE "partition"
    /\ UNCHANGED <<tasks, max_time, mode>>
    /\ UNCHANGED sim_vars

RECURSIVE AddAll(_, _)
AddAll(proc, ts) ==
    IF ts = <<>> THEN proc ELSE AddAll(add_task(proc, Head(ts)), Tail(ts))

\* The uniprocessor callers: cpu0 = Processor(0); add every task to it.
ForceUniprocessor ==
    /\ pc = "start"
    /\ mode = "uni"
    /\ processors' = <<AddAll(Processor(0), tasks)>>
    /\ pc' = "ready"
    /\ UNCHANGED <<tasks, max_time, mode, sorted_tasks>>
    /\ UNCHANGED sim_vars

\* ---- run_simulation -----------------------------------------------------
part_vars == <<tasks, max_time, mode, sorted_tasks>>

Procs == 1..Len(processors)

\* The (processor, index into its assigned_tasks) pairs.
TaskSlots ==
    {pi \in Procs \X (1..Len(tasks)) :
        pi[2] <= Len(processors[pi[1]].assigned_tasks)}

\* The elements of a set of numbers in ascending order.
SortedSeq(S) ==
    [k \in 1..Cardinality(S) |->
        CHOOSE x \in S : Cardinality({y \in S : y <= x}) = k]

\* lines 119-127: the locals of a run_simulation call.  The processors are
\* used as the caller passes them; nothing of them is reset.
run_simulation_entry ==
    /\ current_time' = 0
    /\ task_next_arrival' =
           [p \in Procs |-> [i \in 1..Len(processors[p].assigned_tasks) |-> 0]]
    /\ job_counters' =
           [id \in {processors[pi[1]].assigned_tasks[pi[2]].id : pi \in TaskSlots}
              |-> 1]
    /\ prev_log' = [p \in Procs |-> processors[p].execution_log]
    /\ runs' = runs + 1
    /\ proc_idx' = 0
    /\ pc' = "loop"
    /\ UNCHANGED <<processors, jobs>>
    /\ UNCHANGED part_vars

StartSimulation ==
    /\ pc = "ready"
    /\ run_simulation_entry

\* lines 131-137: earliest pending arrival over all processors and tasks.
ArrivalTimes ==
    {task_next_arrival[pi[1]][pi[2]] : pi \in TaskSlots}

\* Variant of CompletionTimes: the completion scan of lines 140-146 is
\* missing, only arrivals are events.
CompletionTimesNone == {}

\* lines 140-146: completion time of every active job.
CompletionTimes ==
    {current_time + jobs[processors[p].active_job].remaining_time :
        p \in {q \in Procs : processors[q].active_job # None}}

\* Variant of NextEventTime: the cap of lines 151-152 is missing.
NextEventTimeUncapped(cands, cap) ==
    IF cands = {} THEN cap ELSE SetMin(cands)

\* lines 148-152: min(next_arrival, next_completion), capped at max_time.
\* float('inf'), the value when there is no candidate, exceeds max_time.
NextEventTime(cands, cap) ==
    IF cands = {} \/ SetMin(cands) > cap THEN cap ELSE SetMin(cands)

\* Variant of LogExecution: the merge of lines 168-169 writes the new
\* interval's start in place of the last entry's start.
LogExecutionOverwrite(log, start, end, tid) ==
    IF log # <<>> /\ Last(log)[3] = tid /\ Last(log)[2] = start
    THEN Append(Front(log), <<start, end, tid>>)
    ELSE Append(log, <<start, end, tid>>)

\* Variant of LogExecution: the merge of lines 166-169 is missing, every
\* interval is appended.
LogExecutionNoMerge(log, start, end, tid) ==
    Append(log, <<start, end, tid>>)

\* Variant of LogExecution: the contiguity test of line 166 is missing.
LogExecutionAnyGap(log, start, end, tid) ==
    IF log # <<>> /\ Last(log)[3] = tid
    THEN Append(Front(log), <<Last(log)[1], end, tid>>)
    ELSE Append(log, <<start, end, tid>>)

\* lines 166-171: extend the last entry if contiguous and same task,
\* else append a new entry.
LogExecution(log, start, end, tid) ==
    IF log # <<>> /\ Last(log)[3] = tid /\ Last(log)[2] = start
    THEN Append(Front(log), <<Last(log)[1], end, tid>>)
    ELSE Append(log, <<start, end, tid>>)

\* lines 129-173: one pass through Steps A and B when the loop condition
\* holds; `break` (line 154) and the loop exit both leave the function.
Advance ==
    /\ pc = "loop"
    /\ current_time < max_time
    /\ LET cands == ArrivalTimes \cup CompletionTimes
           capped == cands = {} \/ SetMin(cands) > max_time
           next_event_time == NextEventTime(cands, max_time)
           dt == next_event_time - current_time
       IN  IF capped /\ next_event_time = current_time
           THEN /\ pc' = "done"
                /\ UNCHANGED <<processors, jobs, current_time>>
           ELSE /\ jobs' = [j \in 1..Len(jobs) |->
                               IF dt > 0 /\ \E p \in Procs : processors[p].active_job = j
                               THEN [jobs[j] EXCEPT !.remaining_time = @ - dt]
                               ELSE jobs[j]]
                /\ processors' = [p \in Procs |->
                       IF dt > 0 /\ processors[p].active_job # None
                       THEN [processors[p] EXCEPT !.execution_log =
                               LogExecution(@, current_time, next_event_time,
                                   jobs[processors[p].active_job].task.id)]
                       ELSE processors[p]]
                /\ current_time' = next_event_time
                /\ pc' = "completions"
    /\ UNCHANGED <<task_next_arrival, job_counters, proc_idx, runs, prev_log>>
    /\ UNCHANGED part_vars

\* line 129: the loop condition fails, run_simulation returns.
Finish ==
    /\ pc = "loop"
    /\ ~(current_time < max_time)
    /\ pc' = "done"
    /\ UNCHANGED <<processors, jobs, current_time, task_next_arrival,
                   job_counters, proc_idx, runs, prev_log>>
    /\ UNCHANGED part_vars

\* Variant of IsFinished: `<` in place of `<=` at line 179.
IsFinishedStrict(j) == jobs[j].remaining_time < 0

\* line 179: the active job has no time left.
IsFinished(j) == jobs[j].remaining_time <= 0

\* lines 178-181: completions, for every processor.
HandleCompletions ==
    /\ pc = "completions"
    /\ LET done == {p \in Procs : /\ processors[p].active_job # None
                                  /\ IsFinished(processors[p].active_job)}
       IN  /\ jobs' = [j \in 1..Len(jobs) |->
                          IF \E p \in done : processors[p].active_job = j
                          THEN [jobs[j] EXCEPT !.completed = TRUE]
                          ELSE jobs[j]]
           /\ processors' = [p \in Procs |->
                  IF p \in done
                  THEN [processors[p] EXCEPT !.active_job = None]
                  ELSE processors[p]]
    /\ pc' = "arrivals"
    /\ UNCHANGED <<current_time, task_next_arrival, job_counters, proc_idx,
                   runs, prev_log>>
    /\ UNCHANGED part_vars

\* Variant of Due: the task loop of line 185 stops after the first release
\* on a processor, the other tasks due now wait for the next iteration.
DueFirstOnly ==
    {pi \in TaskSlots :
        /\ task_next_arrival[pi[1]][pi[2]] = current_time
        /\ \A i \in 1..(pi[2] - 1) :
              task_next_arrival[pi[1]][i] # current_time}

\* line 186: the (processor, task) pairs whose arrival is due now.
Due == {pi \in TaskSlots : task_next_arrival[pi[1]][pi[2]] = current_time}

\* Position of a due pair in the order the two nested loops visit them.
DueRank(pi) ==
    Cardinality({q \in Due : q[1] < pi[1] \/ (q[1] = pi[1] /\ q[2] <= pi[2])})

\* lines 188-194: the job created for a due pair.
NewJob(pi) ==
    LET task == processors[pi[1]].assigned_tasks[pi[2]]
    IN  Job(task, job_counters[task.id], current_time,
            task.execution_time, current_time + task.period)

\* lines 184-199: arrivals, for every processor and task.
HandleArrivals ==
    /\ pc = "arrivals"
    /\ jobs' = jobs \o [k \in 1..Cardinality(Due) |->
                          NewJob(CHOOSE pi \in Due : DueRank(pi) = k)]
    /\ job_counters' = [id \in DOMAIN job_counters |->
           IF \E pi \in Due : processors[pi[1]].assigned_tasks[pi[2]].id = id
           THEN job_counters[id] + 1 ELSE job_counters[id]]
    /\ processors' = [p \in Procs |->
           [processors[p] EXCEPT !.ready_queue =
               @ \o SortedSeq({Len(jobs) + DueRank(pi) :
                                    pi \in {q \in Due : q[1] = p}})]]
    /\ task_next_arrival' = [p \in Procs |->
           [i \in 1..Len(processors[p].assigned_tasks) |->
               IF <<p, i>> \in Due
               THEN task_next_arrival[p][i] + processors[p].assigned_tasks[i].period
               ELSE task_next_arrival[p][i]]]
    /\ proc_idx' = 1
    /\ pc' = "preempt"
    /\ UNCHANGED <<current_time, runs, prev_log>>
    /\ UNCHANGED part_vars

\* ---- dispatcher (Step D), one processor at a time ------------------------
Period(j) == jobs[j].task.period

\* Variant of better_candidate: `<=` in place of `<` at line 210.
better_candidate_or_equal(proc) ==
    \E k \in 1..Len(proc.ready_queue) :
        Period(proc.ready_queue[k]) <= Period(proc.active_job)

\* lines 208-212: a ready job with a strictly smaller period than the
\* active job's.
better_candidate(proc) ==
    \E k \in 1..Len(proc.ready_queue) :
        Period(proc.ready_queue[k]) < Period(proc.active_job)

\* Variant of PreemptProc: a dispatcher that never preempts.
PreemptProcNever(proc) == proc

\* lines 204-216: demote the active job if a better candidate is ready.
PreemptProc(proc) ==
    IF proc.active_job # None /\ better_candidate(proc)
    THEN [proc EXCEPT !.ready_queue = Append(@, proc.active_job),
                      !.active_job = None]
    ELSE proc

\* lines 63-69: ready_queue.sort(key=lambda j: j.task.period)
sort_ready_queue(queue) ==
    StableSort(queue, [k \in 1..Len(queue) |-> Period(queue[k])])

\* Variant of SelectProc: ready_queue[0] in place of ready_queue.pop(0).
SelectProcNoPop(proc) ==
    IF proc.active_job = None /\ proc.ready_queue # <<>>
    THEN [proc EXCEPT !.active_job = Head(proc.ready_queue)]
    ELSE proc

\* lines 221-222: take the head of the queue if the processor is free.
SelectProc(proc) ==
    IF proc.active_job = None /\ proc.ready_queue # <<>>
    THEN [proc EXCEPT !.active_job = Head(proc.ready_queue),
                      !.ready_queue = Tail(@)]
    ELSE proc

disp_unchanged ==
    /\ UNCHANGED <<jobs, current_time, task_next_arrival, job_counters,
                   runs, prev_log>>
    /\ UNCHANGED part_vars

Preempt ==
    /\ pc = "preempt"
    /\ processors' = [processors EXCEPT ![proc_idx] = PreemptProc(@)]
    /\ pc' = "sort"
    /\ UNCHANGED proc_idx
    /\ disp_unchanged

SortQueue ==
    /\ pc = "sort"
    /\ processors' = [processors EXCEPT ![proc_idx].ready_queue = sort_ready_queue(@)]
    /\ pc' = "select"
    /\ UNCHANGED proc_idx
    /\ disp_unchanged

\* lines 221-222, then the next processor of line 202 or back to line 129.
Select ==
    /\ pc = "select"
    /\ processors' = [processors EXCEPT ![proc_idx] = SelectProc(@)]
    /\ IF proc_idx < Len(processors)
       THEN proc_idx' = proc_idx + 1 /\ pc' = "preempt"
       ELSE proc_idx' = 0 /\ pc' = "loop"
    /\ disp_unchanged

\* run_simulation called again with the same processors and horizon.
Rerun ==
    /\ pc = "done"
    /\ runs < MaxRuns
    /\ run_simulation_entry

\* After the processors have been simulated together, run_simulation is
\* called with the same horizon on a list holding one fresh processor that
\* has the id and the tasks of one of them; prev_log keeps the log that
\* processor got in the joint call.
RunAlone ==
    /\ pc = "done"
    /\ runs = 1
    /\ Len(processors) >= 2
    /\ \E p \in Procs :
          /\ processors' =
                 <<AddAll(Processor(processors[p].id),
                          processors[p].assigned_tasks)>>
          /\ prev_log' = <<processors[p].execution_log>>
          /\ task_next_arrival' =
                 <<[i \in 1..Len(processors[p].assigned_tasks) |-> 0]>>
          /\ job_counters' =
                 [id \in {processors[p].assigned_tasks[i].id :
                             i \in 1..Len(processors[p].assigned_tasks)} |-> 1]
    /\ jobs' = <<>>
    /\ current_time' = 0
    /\ runs' = runs + 1
    /\ proc_idx' = 0
    /\ pc' = "loop"
    /\ UNCHANGED part_vars

\* ---- specifications ------------------------------------------------------
Next ==
    \/ BeginPartition
    \/ PlaceTask
    \/ ForceUniprocessor
    \/ StartSimulation
    \/ Advance
    \/ Finish
    \/ HandleCompletions
    \/ HandleArrivals
    \/ Preempt
    \/ SortQueue
    \/ Select

\* One run_simulation call on freshly built processors.
Spec == Init /\ [][Next]_vars

\* The caller may call run_simulation again on the same processors.
NextRerun == Next \/ Rerun

SpecRerun == Init /\ [][NextRerun]_vars

\* One run over the hyperperiod of the task list.
SpecHyper == InitHyper /\ [][Next]_vars

\* One run, on any input within the bounds or on a concrete scenario.
SpecCases == (Init \/ InitCases) /\ [][Next]_vars

\* A joint simulation followed by the simulation of one processor alone.
NextAlone == Next \/ RunAlone

SpecAlone == Init /\ [][NextAlone]_vars

\* The program keeps executing: a call that can take a step takes it.
SpecLive == Init /\ [][Next]_vars /\ WF_vars(Next)

\* ---- properties ----------------------------------------------------------
Log(p) == processors[p].execution_log

Queue(p) == processors[p].ready_queue

Active(p) == processors[p].active_job

Assigned(p) == processors[p].assigned_tasks

\* Total length of the log entries that carry a task id.
LoggedTime(log, tid) ==
    SeqSum([k \in 1..Len(log) |->
               IF log[k][3] = tid THEN log[k][2] - log[k][1] ELSE 0])

\* Number of log entries that carry a task id.
LoggedEntries(log, tid) == Cardinality({k \in 1..Len(log) : log[k][3] = tid})

\* C1: on every processor, every log entry (start, end, task) has
\* 0 <= start < end <= horizon and each entry ends no later than the next
\* one starts (sorted, non-overlapping).
C1_LogSortedNonOverlapping ==
    \A p \in Procs : \A k \in 1..Len(Log(p)) :
        /\ 0 <= Log(p)[k][1]
        /\ Log(p)[k][1] < Log(p)[k][2]
        /\ Log(p)[k][2] <= max_time
        /\ k < Len(Log(p)) => Log(p)[k][2] <= Log(p)[k + 1][1]

\* C1 witness: a finished run whose log has an idle gap, entries of two
\* tasks, and a last entry cut at the horizon.
C1_Witness ==
    /\ pc = "done"
    /\ \E p \in Procs :
          /\ Len(Log(p)) >= 3
          /\ \E k \in 1..(Len(Log(p)) - 1) : Log(p)[k][2] < Log(p)[k + 1][1]
          /\ \E k \in 1..(Len(Log(p)) - 1) : Log(p)[k][3] # Log(p)[k + 1][3]
          /\ Last(Log(p))[2] = max_time
          /\ Active(p) # None /\ jobs[Active(p)].remaining_time > 0

\* The processors whose dispatch step of the current event is over.
Dispatched ==
    IF pc \in {"loop", "done"} /\ runs >= 1 THEN Procs
    ELSE IF pc \in {"preempt", "sort", "select"} THEN 1..(proc_idx - 1)
    ELSE {}

\* C2: after the dispatch step of an event, the active job of a processor
\* has a period <= the period of every job in its ready queue, and the
\* processor is idle only if its ready queue is empty.
C2_ZeroDelayPreemption ==
    \A p \in Dispatched :
        /\ Active(p) # None =>
              \A k \in 1..Len(Queue(p)) : Period(Active(p)) <= Period(Queue(p)[k])
        /\ Active(p) = None => Queue(p) = <<>>

\* C2 witness: a job that arrived at this instant is active, and a job of
\* strictly larger period that had already run is back in the ready queue.
C2_Witness ==
    /\ pc = "loop"
    /\ \E p \in Procs :
          /\ Active(p) # None
          /\ jobs[Active(p)].arrival_time = current_time
          /\ current_time > 0
          /\ \E k \in 1..Len(Queue(p)) :
                /\ Period(Queue(p)[k]) > Period(Active(p))
                /\ jobs[Queue(p)[k]].remaining_time > 0
                /\ jobs[Queue(p)[k]].remaining_time
                      < jobs[Queue(p)[k]].task.execution_time

\* C3: when run_simulation has run over the hyperperiod H of a processor's
\* tasks and their utilization is within liu_layland_bound(n), each task's
\* logged time is execution_time * (H / period).
C3_HyperperiodBusyTime ==
    pc = "done" =>
        \A p \in Procs :
            (/\ FitsBound(Assigned(p))
             /\ max_time = Hyperperiod(Assigned(p)))
            => \A i \in 1..Len(Assigned(p)) :
                  LoggedTime(Log(p), Assigned(p)[i].id)
                    = Assigned(p)[i].execution_time
                        * (max_time \div Assigned(p)[i].period)

\* C3 witness: such a run with two or more tasks on the processor, one of
\* them logged in more pieces than it has jobs (it was preempted).
C3_Witness ==
    /\ pc = "done"
    /\ \E p \in Procs :
          /\ FitsBound(Assigned(p))
          /\ max_time = Hyperperiod(Assigned(p))
          /\ Len(Assigned(p)) >= 2
          /\ \E i \in 1..Len(Assigned(p)) :
                LoggedEntries(Log(p), Assigned(p)[i].id)
                    > max_time \div Assigned(p)[i].period

\* C4: once partition_tasks_ff_rm has returned, every input task is in
\* the assigned_tasks of exactly one processor, exactly once, and the
\* processors hold nothing else.
C4_PartitionExactlyOnce ==
    (mode = "ffrm" /\ pc \notin {"start", "partition"}) =>
        /\ \A i \in 1..Len(tasks) :
              Cardinality({pi \in TaskSlots :
                              Assigned(pi[1])[pi[2]] = tasks[i]}) = 1
        /\ Cardinality(TaskSlots) = Len(tasks)

\* C4 witness: a partition into two or more processors, one of them with
\* two or more tasks.
C4_Witness ==
    /\ mode = "ffrm"
    /\ pc = "ready"
    /\ Len(processors) >= 2
    /\ \E p \in Procs : Len(Assigned(p)) >= 2

ValidTask(t) ==
    t.period > 0 /\ t.execution_time > 0 /\ t.execution_time <= t.period

\* C5: no task with period <= 0, execution_time <= 0 or execution_time >
\* period is in a processor's assigned_tasks when run_simulation executes.
C5_InvalidTaskRejected ==
    runs >= 1 => \A pi \in TaskSlots : ValidTask(Assigned(pi[1])[pi[2]])

\* C6: partition_tasks_ff_rm on an empty task list returns no processor.
C6_EmptyPartition ==
    (mode = "ffrm" /\ pc = "ready" /\ tasks = <<>>) => processors = <<>>

\* C7: a job is never active while an older job (created before it) of
\* the same period, with time remaining, waits in the ready queue.
C7_EqualPeriodArrivalOrder ==
    \A p \in Procs :
        Active(p) # None =>
            \A k \in 1..Len(Queue(p)) :
                (/\ Period(Queue(p)[k]) = Period(Active(p))
                 /\ jobs[Queue(p)[k]].remaining_time > 0)
                => Queue(p)[k] > Active(p)

\* C8: in the dispatch step, an active job that no ready job beats by a
\* strictly smaller period stays the active job (it is not demoted by the
\* preemption check and not replaced by the selection).
C8_EqualPeriodNeverPreempts ==
    [][\A p \in Procs :
          (/\ pc \in {"preempt", "sort", "select"}
           /\ Active(p) # None
           /\ ~ \E k \in 1..Len(Queue(p)) :
                    Period(Queue(p)[k]) < Period(Active(p)))
          => /\ processors'[p].active_job = Active(p)
             /\ \A k \in 1..Len(processors'[p].ready_queue) :
                   processors'[p].ready_queue[k] # Active(p)]_vars

\* C8 witness: after a dispatch, a job that had already run is still
\* active while a job of equal period that arrived at this instant waits.
C8_Witness ==
    /\ pc = "loop"
    /\ \E p \in Procs :
          /\ Active(p) # None
          /\ jobs[Active(p)].arrival_time < current_time
          /\ jobs[Active(p)].remaining_time
                < jobs[Active(p)].task.execution_time
          /\ ValidTask(jobs[Active(p)].task)
          /\ \E k \in 1..Len(Queue(p)) :
                /\ Period(Queue(p)[k]) = Period(Active(p))
                /\ jobs[Queue(p)[k]].arrival_time = current_time

\* Number of places that hold a reference to job j: the slots of every
\* ready queue and every active_job.
Holders(j) ==
    SeqSum([p \in Procs |->
               Cardinality({k \in 1..Len(Queue(p)) : Queue(p)[k] = j})
               + (IF Active(p) = j THEN 1 ELSE 0)])

\* C9: every incomplete job is held in exactly one place (one slot of one
\* ready queue, or one active_job); a completed job is held nowhere.
C9_JobOwnershipExclusive ==
    \A j \in 1..Len(jobs) :
        Holders(j) = (IF jobs[j].completed THEN 0 ELSE 1)

\* C9 witness: right after a preemption demoted the active job: the slot
\* is free and the partly run job is last in the ready queue, while
\* completed jobs exist.
C9_Witness ==
    /\ pc = "sort"
    /\ Active(proc_idx) = None
    /\ Queue(proc_idx) # <<>>
    /\ jobs[Last(Queue(proc_idx))].remaining_time > 0
    /\ jobs[Last(Queue(proc_idx))].remaining_time
          < jobs[Last(Queue(proc_idx))].task.execution_time
    /\ \E j \in 1..Len(jobs) : jobs[j].completed

\* C10: a second run_simulation call with the same processors and horizon
\* ends with the execution logs the first call ended with.
C10_RerunSameLog ==
    (pc = "done" /\ runs >= 2) =>
        \A p \in Procs : Log(p) = prev_log[p]

\* Task i of processor p has the strictly smallest period on p and
\* execution_time <= period.
StrictlyShortest(p, i) ==
    /\ Assigned(p)[i].execution_time <= Assigned(p)[i].period
    /\ \A k \in 1..Len(Assigned(p)) :
          k # i => Assigned(p)[i].period < Assigned(p)[k].period

\* The jobs created so far of a task.
JobsOf(t) == {j \in 1..Len(jobs) : jobs[j].task = t}

\* C11: whatever the utilization, every job of the task with the strictly
\* smallest period on a processor runs from its arrival a without
\* interruption: its remaining time is execution_time minus the time since
\* a (0 from a + execution_time on, hence by its deadline), it is the
\* active job whenever time is about to advance and it is not finished,
\* and the log covers [a, a + execution_time) (cut at the horizon) with
\* its task.  For T1(2,1), T2(5,2), T3(4,2) on one processor over 20, T1
\* is logged exactly on [2k, 2k+1), k = 0..9.
C11_ShortestPeriodRunsAtArrival ==
    /\ \A pi \in TaskSlots : StrictlyShortest(pi[1], pi[2]) =>
          \A j \in JobsOf(Assigned(pi[1])[pi[2]]) :
              LET t == jobs[j].task
                  a == jobs[j].arrival_time
                  ran == current_time - a
              IN  /\ jobs[j].remaining_time =
                        (IF ran >= t.execution_time THEN 0
                         ELSE t.execution_time - ran)
                  /\ (pc = "loop" /\ jobs[j].remaining_time > 0)
                        => Active(pi[1]) = j
                  /\ (pc = "done" /\ a < max_time) =>
                        \E k \in 1..Len(Log(pi[1])) :
                            /\ Log(pi[1])[k][3] = t.id
                            /\ Log(pi[1])[k][1] <= a
                            /\ \/ Log(pi[1])[k][2] >= a + t.execution_time
                               \/ Log(pi[1])[k][2] = max_time
    /\ (pc = "done" /\ tasks = MainTasks /\ mode = "uni") =>
          /\ {Log(1)[k] : k \in {m \in 1..Len(Log(1)) : Log(1)[m][3] = 1}}
                = {<<2 * k, 2 * k + 1, 1>> : k \in 0..9}
          /\ LoggedEntries(Log(1), 1) = 10

\* C11 witness: the overloaded __main__ scenario 1 has ended; ten T1 jobs
\* completed while a job of another task is past its deadline, unfinished.
C11_Witness ==
    /\ pc = "done"
    /\ tasks = MainTasks
    /\ mode = "uni"
    /\ Cardinality({j \in JobsOf(tasks[1]) : jobs[j].completed}) = 10
    /\ \E j \in 1..Len(jobs) :
          /\ jobs[j].remaining_time > 0
          /\ jobs[j].absolute_deadline <= current_time

\* One processor holding exactly one task, whose execution_time < period.
AloneTask ==
    /\ Len(processors) = 1
    /\ Len(Assigned(1)) = 1
    /\ Assigned(1)[1].execution_time < Assigned(1)[1].period

\* C12: a single task (period p, execution_time c < p) alone on one
\* processor, run to horizon H, is logged as exactly one entry
\* [k*p, min(k*p + c, H)) for each k >= 0 with k*p < H, in that order, and
\* nothing else; for period 10, exec 3, horizon 30 the log is (0,3),
\* (10,13), (20,23).
C12_SingleTaskLog ==
    /\ (pc = "done" /\ AloneTask) =>
          LET t == Assigned(1)[1]
              n == (max_time + t.period - 1) \div t.period
          IN  Log(1) = [k \in 1..n |->
                  <<(k - 1) * t.period,
                    IF (k - 1) * t.period + t.execution_time < max_time
                    THEN (k - 1) * t.period + t.execution_time
                    ELSE max_time,
                    t.id>>]
    /\ (pc = "done" /\ tasks = SingleTask) =>
          Log(1) = << <<0, 3, 1>>, <<10, 13, 1>>, <<20, 23, 1>> >>

\* C12 witness: such a run has ended with two or more entries, the last
\* one cut short by the horizon.
C12_Witness ==
    /\ pc = "done"
    /\ AloneTask
    /\ Len(Log(1)) >= 2
    /\ Last(Log(1))[2] = max_time
    /\ Last(Log(1))[2] - Last(Log(1))[1] < Assigned(1)[1].execution_time

\* C13: the remaining time of a job is never negative (and never above its
\* task's execution time): no time advance exceeds the remaining time of
\* an active job, and every completion time computed is >= the current
\* time.
C13_RemainingNeverNegative ==
    /\ \A j \in 1..Len(jobs) :
          /\ 0 <= jobs[j].remaining_time
          /\ jobs[j].remaining_time <= jobs[j].task.execution_time
    /\ \A c \in CompletionTimes : c >= current_time

\* C13 witness: right after a time advance, one processor's job has just
\* reached 0 while another processor's job, stopped by that event, has
\* run in part.
C13_Witness ==
    /\ pc = "completions"
    /\ \E p, q \in Procs :
          /\ Active(p) # None /\ Active(q) # None
          /\ jobs[Active(p)].remaining_time = 0
          /\ jobs[Active(q)].remaining_time > 0
          /\ jobs[Active(q)].remaining_time
                < jobs[Active(q)].task.execution_time

\* The tasks of a sequence are in ascending period order, equal periods in
\* input (id) order, and are the tasks of the input list.
PriorityOrder(ts) ==
    /\ Len(ts) = Len(tasks)
    /\ {ts[i] : i \in 1..Len(ts)} = {tasks[i] : i \in 1..Len(tasks)}
    /\ \A i, k \in 1..Len(ts) :
          i < k => \/ ts[i].period < ts[k].period
                   \/ ts[i].period = ts[k].period /\ ts[i].id < ts[k].id

\* One step of the partition: the task handled is the next one in priority
\* order; it goes to the lowest-index processor passing the post-insertion
\* test, else to a new processor appended with the next id; nothing else
\* of any processor changes.
FirstFitStep ==
    /\ (pc = "start" /\ mode = "ffrm") => PriorityOrder(sorted_tasks')
    /\ pc = "partition" =>
          LET task == Head(sorted_tasks)
              fit == {p \in Procs : Fits(processors[p], task)}
              n == Len(processors)
          IN  /\ sorted_tasks' = Tail(sorted_tasks)
              /\ IF fit # {}
                 THEN processors' =
                          [processors EXCEPT ![SetMin(fit)].assigned_tasks =
                                                 Append(@, task)]
                 ELSE /\ Len(processors') = n + 1
                      /\ \A p \in Procs : processors'[p] = processors[p]
                      /\ processors'[n + 1].id = n
                      /\ processors'[n + 1].assigned_tasks = <<task>>

\* C14: first fit with the post-insertion bound, in ascending period order
\* (input order on ties); a new processor only when no existing one
\* accepts the task; T1 (2, 1), T2 (2, 1), T3 (5, 4) end on three
\* processors holding T1, T2 and T3 in that order.
C14_FirstFitPostInsertion ==
    /\ [][FirstFitStep]_vars
    /\ [](pc = "ready" /\ mode = "ffrm" /\ tasks = TestFfrmTasks =>
            /\ Len(processors) = 3
            /\ \A p \in Procs : /\ processors[p].id = p - 1
                                /\ Assigned(p) = <<TestFfrmTasks[p]>>)

\* C14 witness: a partition of three tasks on two processors whose last
\* task passed the test on both processors and is on the first.
C14_Witness ==
    /\ pc = "ready" /\ mode = "ffrm"
    /\ Len(processors) = 2
    /\ Len(Assigned(1)) = 2 /\ Len(Assigned(2)) = 1
    /\ Assigned(1)[2].period > Assigned(2)[1].period
    /\ Fits(processors[2], Assigned(1)[2])

\* The loop body is entered for the first time in this call: no arrival
\* has been released yet.
FirstIteration ==
    /\ TaskSlots # {}
    /\ \A pi \in TaskSlots : task_next_arrival[pi[1]][pi[2]] = 0

\* One loop iteration never moves time back nor past max_time, and moves
\* it forward unless it is the first.
TimeStep ==
    /\ current_time' >= current_time
    /\ current_time' <= max_time
    /\ (pc = "loop" /\ pc' = "completions" /\ ~FirstIteration)
          => current_time' > current_time

\* C15: run_simulation terminates; time is non-decreasing, never above
\* max_time, strictly increasing in every iteration after the first, and
\* equal to max_time when the loop exits.
C15_Terminates ==
    /\ [][TimeStep]_vars
    /\ [](pc = "done" => current_time = max_time)
    /\ <>(pc = "done")

\* C15 witness: the call has returned after at least three iterations
\* with tasks, one of them cut short by max_time.
C15_Witness ==
    /\ pc = "done"
    /\ Len(jobs) >= 3
    /\ \E j \in 1..Len(jobs) :
          jobs[j].remaining_time > 0 /\ jobs[j].arrival_time < max_time

\* The jobs of the task in slot pi created so far are those of its
\* arrivals 0, period, 2 * period, ..., one job each, numbered from 1.
ReleasedInOrder(pi) ==
    LET t == Assigned(pi[1])[pi[2]]
        n == Cardinality(JobsOf(t))
    IN  /\ \A k \in 1..n : \E j \in JobsOf(t) : jobs[j].id = k
        /\ \A j \in JobsOf(t) :
              /\ jobs[j].id \in 1..n
              /\ jobs[j].arrival_time = (jobs[j].id - 1) * t.period
              /\ jobs[j].absolute_deadline = jobs[j].id * t.period

\* The number of jobs of the task in slot pi: before the arrival step of
\* an instant, one per multiple of the period below current_time; from the
\* arrival step on, one per multiple up to current_time.
ReleasedCount(pi) ==
    LET t == Assigned(pi[1])[pi[2]]
        n == Cardinality(JobsOf(t))
    IN  /\ pc \in {"completions", "arrivals"} =>
              n = (current_time + t.period - 1) \div t.period
        /\ (\/ pc \in {"preempt", "sort", "select", "done"}
            \/ pc = "loop" /\ ~FirstIteration) =>
              n = (current_time \div t.period) + 1

\* Before the dispatch of processor pi[1] at an instant, the job of slot
\* pi released at that instant is in the ready queue, untouched.
ReleasedBeforeDispatch(pi) ==
    LET t == Assigned(pi[1])[pi[2]]
    IN  (pc = "preempt" /\ pi[1] >= proc_idx) =>
            \A j \in JobsOf(t) :
                jobs[j].arrival_time = current_time =>
                    /\ \E k \in 1..Len(Queue(pi[1])) : Queue(pi[1])[k] = j
                    /\ jobs[j].remaining_time = t.execution_time

\* C16: no arrival is skipped, duplicated or delayed: for every task on a
\* processor and every k with k * period below the horizon there is
\* exactly one job, created at time k * period with id k + 1, remaining
\* time = execution time and deadline (k + 1) * period, and the jobs of an
\* instant are in the ready queue before that instant's dispatch.
C16_ArrivalsExact ==
    \A pi \in TaskSlots :
        /\ ReleasedInOrder(pi)
        /\ ReleasedCount(pi)
        /\ ReleasedBeforeDispatch(pi)

\* C16 witness: two tasks of a processor release a job at the same
\* instant after time 0, and the processor's dispatch is still to come.
C16_Witness ==
    /\ pc = "preempt"
    /\ current_time > 0
    /\ \E p \in Procs :
          /\ p >= proc_idx
          /\ \E i, k \in 1..Len(Assigned(p)) :
                /\ i # k
                /\ \E j \in JobsOf(Assigned(p)[i]) :
                      jobs[j].arrival_time = current_time
                /\ \E j \in JobsOf(Assigned(p)[k]) :
                      jobs[j].arrival_time = current_time

\* Time executed so far by the jobs of a task: the sum over its jobs of
\* (execution_time - remaining_time).
ExecutedTime(t) ==
    SeqSum([j \in 1..Len(jobs) |->
               IF jobs[j].task = t
               THEN t.execution_time - jobs[j].remaining_time ELSE 0])

\* The logged time of every task equals the time its jobs have executed,
\* and the completed jobs are those with no remaining time (between a time
\* advance and the completion scan a job at 0 is not yet marked).
WorkAccounted ==
    /\ \A pi \in TaskSlots :
          LoggedTime(Log(pi[1]), Assigned(pi[1])[pi[2]].id)
              = ExecutedTime(Assigned(pi[1])[pi[2]])
    /\ \A j \in 1..Len(jobs) :
          /\ jobs[j].completed => jobs[j].remaining_time = 0
          /\ (jobs[j].remaining_time = 0 /\ pc # "completions")
                => jobs[j].completed

\* A job that is not the active job of a processor keeps its remaining
\* time, and so does a job the dispatcher demotes.
WaitingKeepsRemaining ==
    \A j \in 1..Len(jobs) :
        \/ \E p \in Procs : Active(p) = j /\ pc = "loop"
        \/ jobs'[j].remaining_time = jobs[j].remaining_time

\* C17: preemption neither loses nor duplicates work: per task, logged
\* time = sum over its jobs of (execution_time - remaining_time); a
\* demoted job keeps its remaining time and resumes from it; a job is
\* completed exactly when it has executed for execution_time.
C17_WorkConserved ==
    /\ []WorkAccounted
    /\ [][WaitingKeepsRemaining]_vars

\* C17 witness: a completed job whose execution is in two separate log
\* entries within its own period (preempted, then resumed), while another
\* job waits in a ready queue partly executed.
C17_Witness ==
    /\ \E p \in Procs : \E j \in 1..Len(jobs) :
          /\ jobs[j].completed
          /\ \E k1, k2 \in 1..Len(Log(p)) :
                /\ k1 < k2
                /\ Log(p)[k1][3] = jobs[j].task.id
                /\ Log(p)[k2][3] = jobs[j].task.id
                /\ Log(p)[k1][1] >= jobs[j].arrival_time
                /\ Log(p)[k2][2] <= jobs[j].absolute_deadline
    /\ \E p \in Procs : \E k \in 1..Len(Queue(p)) :
          /\ jobs[Queue(p)[k]].remaining_time > 0
          /\ jobs[Queue(p)[k]].remaining_time
                < jobs[Queue(p)[k]].task.execution_time

\* One step takes the log `old` of a processor to `new`: unchanged, or the
\* last entry's end moved forward, or one entry appended.
LogExtended(old, new) ==
    \/ new = old
    \/ /\ old # <<>>
       /\ Len(new) = Len(old)
       /\ Front(new) = Front(old)
       /\ Last(new)[1] = Last(old)[1]
       /\ Last(new)[3] = Last(old)[3]
       /\ Last(new)[2] > Last(old)[2]
    \/ /\ Len(new) = Len(old) + 1
       /\ Front(new) = old

LogStep ==
    \A p \in Procs :
        p <= Len(processors') =>
            LogExtended(Log(p), processors'[p].execution_log)

\* C18: the execution log is append-only up to extension of its last
\* entry: a step leaves every entry but the last unchanged, and either
\* leaves the last unchanged, or moves its end forward, or appends one
\* entry after it.
C18_LogAppendOnly == [][LogStep]_vars

\* C18 witness: a log of two or more entries, one of them merged from
\* intervals that an arrival separates.
C18_Witness ==
    \E p \in Procs :
        /\ Len(Log(p)) >= 2
        /\ \E k \in 1..Len(Log(p)) : \E j \in 1..Len(jobs) :
              /\ Log(p)[k][1] < jobs[j].arrival_time
              /\ jobs[j].arrival_time < Log(p)[k][2]

\* C19: processors do not interfere: the log a processor gets when all are
\* simulated together is the log it gets when simulated alone with the
\* same horizon.
C19_NoInterference ==
    (pc = "done" /\ runs = 2) => Log(1) = prev_log[1]

\* C19 witness: the run alone has returned, and its log has an entry that
\* spans an arrival instant of a task of another processor which is no
\* arrival instant of the processor's own tasks.
C19_Witness ==
    /\ pc = "done" /\ runs = 2
    /\ \E k \in 1..Len(Log(1)) : \E m \in 1..max_time :
          /\ Log(1)[k][1] < m /\ m < Log(1)[k][2]
          /\ \A i \in 1..Len(Assigned(1)) : m % Assigned(1)[i].period # 0
          /\ \E i \in 1..Len(tasks) :
                /\ m % tasks[i].period = 0
                /\ \A q \in 1..Len(Assigned(1)) : Assigned(1)[q] # tasks[i]

\* Every task of the input has 1 <= execution_time <= period.
AllValid ==
    \A i \in 1..Len(tasks) :
        1 <= tasks[i].execution_time
            /\ tasks[i].execution_time <= tasks[i].period

\* C20: for valid tasks, every processor the partition returns has a
\* utilization <= liu_layland_bound(number of its tasks), and in the
\* simulation over the hyperperiod no job has time remaining at its
\* absolute deadline.
C20_PartitionSchedulable ==
    (mode = "ffrm" /\ AllValid) =>
        /\ pc \notin {"start", "partition"} =>
              \A p \in Procs : FitsBound(Assigned(p))
        /\ \A j \in 1..Len(jobs) :
              jobs[j].remaining_time > 0 =>
                  current_time < jobs[j].absolute_deadline

\* C20 witness: the simulation of a partition of valid tasks has returned;
\* every job released before the horizon is completed, one of them on a
\* processor of two or more tasks after being preempted and resumed (two
\* log entries between its arrival and its deadline).
C20_Witness ==
    /\ pc = "done" /\ mode = "ffrm" /\ AllValid
    /\ \A j \in 1..Len(jobs) :
          jobs[j].arrival_time < max_time => jobs[j].completed
    /\ \E p \in Procs : \E j \in 1..Len(jobs) :
          /\ Len(Assigned(p)) >= 2
          /\ FitsBound(Assigned(p))
          /\ \E i \in 1..Len(Assigned(p)) : Assigned(p)[i] = jobs[j].task
          /\ \E k1, k2 \in 1..Len(Log(p)) :
                /\ k1 < k2
                /\ Log(p)[k1][3] = jobs[j].task.id
                /\ Log(p)[k2][3] = jobs[j].task.id
                /\ Log(p)[k1][1] >= jobs[j].arrival_time
                /\ Log(p)[k2][2] <= jobs[j].absolute_deadline

====
